---- MODULE Spec2Model ----
(***************************************************************************)
(* Model of the evaluation utilities of co3d/challenge/utils.py:           *)
(*   check_user_submission_file_paths, get_result_directory_file_names,    *)
(*   evaluate_file_folders,                                                *)
(* and of make_dbir_submission of examples/example_co3d_challenge_         *)
(* submission.py.                                                          *)
(*                                                                         *)
(* Python strings are sequences of one-character strings, so that          *)
(* glob matching, str.endswith, slicing and sorted() are computed on       *)
(* characters, as the code computes them.  A dict is the sequence of its   *)
(* <<key, value>> items in insertion order, with pairwise distinct keys.   *)
(***************************************************************************)
EXTENDS Integers, Sequences, FiniteSets, TLC

VARIABLES
    pc,                     \* position of the running function
    result_dir,             \* [path, listing]: directory given to a single scan
    has_depth_masks,        \* flag given to a single scan
    result_files,           \* dict returned by a single scan
    pred_folder,            \* [path, listing]: the prediction directory
    gt_folder,              \* [path, listing]: the ground-truth directory
    user_submission_files,  \* dict example name -> root path
    ground_truth_files,     \* dict example name -> root path
    per_example_results,    \* list of eval_one results
    result,                 \* averaged metrics
    error,                  \* the exception raised, if any
    calls,                  \* log of the calls made by the running function
    task,                   \* make_dbir_submission: the task argument
    sequence_set,           \* make_dbir_submission: the sequence_set argument
    clear_submission_files, \* make_dbir_submission: the flag argument
    ON_SERVER,              \* the module-level switch of the example script
    cuda_is_available,      \* what torch.cuda.is_available() returns
    eval_batches_map,       \* dict (category, subset_name) -> number of eval batches
    eval_i,                 \* number of keys of the map already processed
    eval_index              \* number of eval batches of the current key already rendered

\* the variables of make_dbir_submission
submission_vars == <<task, sequence_set, clear_submission_files, ON_SERVER,
                     cuda_is_available, eval_batches_map, eval_i, eval_index>>

vars == <<pc, result_dir, has_depth_masks, result_files, pred_folder, gt_folder,
          user_submission_files, ground_truth_files, per_example_results,
          result, error, calls, submission_vars>>

\* no submission is being made
NoSubmission ==
    /\ task = "none"
    /\ sequence_set = "none"
    /\ clear_submission_files = FALSE
    /\ ON_SERVER = FALSE
    /\ cuda_is_available = FALSE
    /\ eval_batches_map = << >>
    /\ eval_i = 0
    /\ eval_index = 0

----------------------------------------------------------------------------
(* Bounds *)

NumCheckNames == 3
NumScanStems == 2
NumEvalStems == 2
MaxMetricValue == 2
NumSubmissionKeys == 2
MaxEvalBatches == 2

----------------------------------------------------------------------------
(* Python str *)

CodePoint(c) ==
    CASE c = "." -> 46 [] c = "/" -> 47 [] c = "_" -> 95
      [] c = "a" -> 97 [] c = "b" -> 98 [] c = "c" -> 99 [] c = "d" -> 100
      [] c = "e" -> 101 [] c = "g" -> 103 [] c = "h" -> 104 [] c = "i" -> 105
      [] c = "k" -> 107 [] c = "m" -> 109 [] c = "n" -> 110 [] c = "p" -> 112
      [] c = "s" -> 115 [] c = "t" -> 116

\* s < t for Python strings: lexicographic on code points, a proper prefix is smaller
StrLess(s, t) ==
    \E i \in 1..(Len(t)) :
        /\ i <= Len(s) + 1
        /\ \A j \in 1..(i - 1) : s[j] = t[j]
        /\ \/ i = Len(s) + 1
           \/ CodePoint(s[i]) < CodePoint(t[i])

\* s.endswith(suffix)
EndsWith(s, suffix) ==
    /\ Len(suffix) <= Len(s)
    /\ \A i \in 1..Len(suffix) : s[Len(s) - Len(suffix) + i] = suffix[i]

\* s[: -k]
StripLast(s, k) ==
    IF k = 0 THEN << >>
    ELSE IF Len(s) <= k THEN << >>
    ELSE SubSeq(s, 1, Len(s) - k)

\* sorted(S) for a collection S of distinct strings
RECURSIVE Sorted(_)
Sorted(S) ==
    IF S = {} THEN << >>
    ELSE LET m == CHOOSE x \in S : \A y \in S \ {x} : StrLess(x, y)
         IN  <<m>> \o Sorted(S \ {m})

\* os.path.join(a, b) for a relative b
PathJoin(a, b) ==
    IF a = << >> \/ a[Len(a)] = "/" THEN a \o b ELSE a \o <<"/">> \o b

\* os.path.split(p)[-1]
RECURSIVE PathTail(_)
PathTail(p) ==
    IF p = << >> THEN << >>
    ELSE IF p[Len(p)] = "/" THEN << >>
    ELSE PathTail(SubSeq(p, 1, Len(p) - 1)) \o <<p[Len(p)]>>

----------------------------------------------------------------------------
(* Python dict, as the sequence of its items *)

Range(s) == {s[i] : i \in DOMAIN s}

Keys(d) == [i \in DOMAIN d |-> d[i][1]]

KeySet(d) == {d[i][1] : i \in DOMAIN d}

\* k in d
HasKey(d, k) == k \in KeySet(d)

\* d[k]
Get(d, k) == d[CHOOSE i \in DOMAIN d : d[i][1] = k][2]

----------------------------------------------------------------------------
(* The file names of the model *)

PNG == <<".", "p", "n", "g">>

ResultTypes == <<"image", "mask", "depth">>

TypeChars(result_type) ==
    CASE result_type = "image" -> <<"i", "m", "a", "g", "e">>
      [] result_type = "mask"  -> <<"m", "a", "s", "k">>
      [] result_type = "depth" -> <<"d", "e", "p", "t", "h">>

\* f"_{result_type}.png"
Postfix(result_type) == <<"_">> \o TypeChars(result_type) \o PNG

DEPTH_MASK_POSTFIX == <<"_">> \o TypeChars("depth") \o <<"_">> \o TypeChars("mask") \o PNG

A_DEPTH == <<"a", "_">> \o TypeChars("depth")

StemList == << <<"a">>, A_DEPTH, <<"b">>, <<"c">>, <<"d">> >>

Stems(n) == {StemList[i] : i \in 1..n}

NoError == [type |-> "none"]

----------------------------------------------------------------------------
(* check_user_submission_file_paths *)

\* Mutant: the membership test is made against the wrong dict
MissingGtExamples_SelfTest(gt_files, user_files) ==
    LET Test(gt_example_name) == ~HasKey(gt_files, gt_example_name)
    IN  SelectSeq(Keys(gt_files), Test)

\* [n for n in ground_truth_files if n not in user_submission_files]
MissingGtExamples(gt_files, user_files) ==
    LET Test(gt_example_name) == ~HasKey(user_files, gt_example_name)
    IN  SelectSeq(Keys(gt_files), Test)

\* Mutant: the filter of the comprehension is dropped
AdditionalUserExamples_Unfiltered(gt_files, user_files) == Keys(user_files)

\* [n for n in user_submission_files if n not in ground_truth_files]
AdditionalUserExamples(gt_files, user_files) ==
    LET Test(user_example) == ~HasKey(gt_files, user_example)
    IN  SelectSeq(Keys(user_files), Test)

\* Mutant: the validation is skipped
check_user_submission_file_paths_NoValidation(gt_files, user_files) == NoError

\* The exception the function raises, or NoError when it returns
check_user_submission_file_paths(gt_files, user_files) ==
    LET missing_gt_examples == MissingGtExamples(gt_files, user_files)
        additional_user_examples == AdditionalUserExamples(gt_files, user_files)
    IN  IF Len(missing_gt_examples) > 0
        THEN [type |-> "ValueError",
              message |-> "There are missing evaluation examples",
              examples |-> missing_gt_examples]
        ELSE IF Len(additional_user_examples) > 0
        THEN [type |-> "ValueError",
              message |-> "Unexpected submitted evaluation examples",
              examples |-> additional_user_examples]
        ELSE NoError

----------------------------------------------------------------------------
(* get_result_directory_file_names *)

\* sorted(glob.glob(os.path.join(result_dir, f"*{postfix}"))): "*" matches any
\* run of characters, but never a file name that starts with a dot
Glob(dir, postfix) ==
    Sorted({PathJoin(dir.path, f) :
              f \in {g \in dir.listing : EndsWith(g, postfix) /\ g[1] # "."}})

\* Mutant: depth masks are dropped whatever the flag is
MatchingFiles_AlwaysFiltered(dir, depth_masks, result_type) ==
    LET matching_files == Glob(dir, Postfix(result_type))
        Test(f) == ~EndsWith(f, DEPTH_MASK_POSTFIX)
    IN  IF result_type = "mask"
        THEN SelectSeq(matching_files, Test)
        ELSE matching_files

\* Mutant: depth masks are never dropped
MatchingFiles_NeverFiltered(dir, depth_masks, result_type) ==
    Glob(dir, Postfix(result_type))

MatchingFiles(dir, depth_masks, result_type) ==
    LET matching_files == Glob(dir, Postfix(result_type))
        Test(f) == ~EndsWith(f, DEPTH_MASK_POSTFIX)
    IN  IF depth_masks /\ result_type = "mask"
        THEN SelectSeq(matching_files, Test)
        ELSE matching_files

\* result_type_files: result type -> dict {example name: file}
ResultTypeFiles(dir, depth_masks) ==
    [result_type \in Range(ResultTypes) |->
        LET matching_files == MatchingFiles(dir, depth_masks, result_type)
        IN  [i \in DOMAIN matching_files |->
                <<StripLast(PathTail(matching_files[i]), Len(Postfix(result_type))),
                  matching_files[i]>>]]

ExampleNames(result_type_files) ==
    Sorted(UNION {KeySet(result_type_files[t]) : t \in Range(ResultTypes)})

\* Mutant: only the first incomplete example is reported
MissingExamples_FirstOnly(result_type_files, example_names) ==
    LET Absent(example_name) ==
            LET Test(result_type) ==
                    ~HasKey(result_type_files[result_type], example_name)
            IN  SelectSeq(ResultTypes, Test)
        all == [i \in DOMAIN example_names |->
                  <<example_names[i], Absent(example_names[i])>>]
        Test(item) == item[2] # << >>
        found == SelectSeq(all, Test)
    IN  IF found = << >> THEN << >> ELSE <<found[1]>>

\* missing_examples: the items (example name, missing result types), in
\* insertion order; a name gets a key only when a type is appended to it
MissingExamples(result_type_files, example_names) ==
    LET Absent(example_name) ==
            LET Test(result_type) ==
                    ~HasKey(result_type_files[result_type], example_name)
            IN  SelectSeq(ResultTypes, Test)
        all == [i \in DOMAIN example_names |->
                  <<example_names[i], Absent(example_names[i])>>]
        Test(item) == item[2] # << >>
    IN  SelectSeq(all, Test)

\* Mutant: the root path is cut with the length of the wrong postfix
ResultFiles_MaskLength(result_type_files, example_names) ==
    [i \in DOMAIN example_names |->
        <<example_names[i],
          StripLast(Get(result_type_files["image"], example_names[i]),
                    Len(Postfix("mask")))>>]

ResultFiles(result_type_files, example_names) ==
    [i \in DOMAIN example_names |->
        <<example_names[i],
          StripLast(Get(result_type_files["image"], example_names[i]),
                    Len(Postfix("image")))>>]

\* [error, result_files]: the exception raised (NoError on return) and the
\* returned dict
get_result_directory_file_names(dir, depth_masks) ==
    LET result_type_files == ResultTypeFiles(dir, depth_masks)
        example_names == ExampleNames(result_type_files)
        missing_examples == MissingExamples(result_type_files, example_names)
    IN  IF Len(missing_examples) > 0
        THEN [error |-> [type |-> "ValueError",
                         message |-> "Some evaluation examples are incomplete",
                         missing_examples |-> missing_examples],
              result_files |-> << >>]
        ELSE [error |-> NoError,
              result_files |-> ResultFiles(result_type_files, example_names)]

----------------------------------------------------------------------------
(* Inputs *)

NoDir == [path |-> << >>, listing |-> {}]

InjectiveSeqs(S) ==
    UNION {{s \in [1..n -> S] : \A i, j \in 1..n : i # j => s[i] # s[j]} :
             n \in 0..Cardinality(S)}

\* every dict with keys among the names and values among the paths
Dicts(names, paths) ==
    UNION {{[i \in DOMAIN ks |-> <<ks[i], v[i]>>] : v \in [DOMAIN ks -> paths]} :
             ks \in InjectiveSeqs(names)}

CheckPaths == {<<"p">>, <<"g">>}

\* a hidden result file and a file that is no result file
HIDDEN_FILE == <<".">> \o StemList[1] \o Postfix("image")
OTHER_FILE == StemList[1] \o PNG

ResultFileNames(stems) == {s \o Postfix(t) : s \in stems, t \in Range(ResultTypes)}

DepthMaskFileNames(stems) == {s \o DEPTH_MASK_POSTFIX : s \in stems}

ScanUniverse ==
    ResultFileNames(Stems(NumScanStems)) \cup DepthMaskFileNames(Stems(NumScanStems))
        \cup {HIDDEN_FILE, OTHER_FILE}

----------------------------------------------------------------------------
(* Specification of a call of check_user_submission_file_paths *)

InitCheck ==
    /\ pc = "check_start"
    /\ ground_truth_files \in Dicts(Stems(NumCheckNames), CheckPaths)
    /\ user_submission_files \in Dicts(Stems(NumCheckNames), CheckPaths)
    /\ result_dir = NoDir
    /\ has_depth_masks = FALSE
    /\ result_files = << >>
    /\ pred_folder = NoDir
    /\ gt_folder = NoDir
    /\ per_example_results = << >>
    /\ result = << >>
    /\ error = NoError
    /\ calls = << >>
    /\ NoSubmission

CallCheck ==
    /\ pc = "check_start"
    /\ error' = check_user_submission_file_paths(ground_truth_files,
                                                 user_submission_files)
    /\ pc' = IF error'.type = "none" THEN "check_returned" ELSE "check_raised"
    /\ UNCHANGED submission_vars
    /\ UNCHANGED <<result_dir, has_depth_masks, result_files, pred_folder,
                   gt_folder, user_submission_files, ground_truth_files,
                   per_example_results, result, calls>>

NextCheck == CallCheck

SpecCheck == InitCheck /\ [][NextCheck]_vars

----------------------------------------------------------------------------
(* Specification of a call of get_result_directory_file_names *)

InitScan ==
    /\ pc = "scan_start"
    /\ result_dir \in [path : {<<"g">>}, listing : SUBSET ScanUniverse]
    /\ has_depth_masks \in BOOLEAN
    /\ result_files = << >>
    /\ pred_folder = NoDir
    /\ gt_folder = NoDir
    /\ user_submission_files = << >>
    /\ ground_truth_files = << >>
    /\ per_example_results = << >>
    /\ result = << >>
    /\ error = NoError
    /\ calls = << >>
    /\ NoSubmission

CallScan ==
    /\ pc = "scan_start"
    /\ LET out == get_result_directory_file_names(result_dir, has_depth_masks)
       IN  /\ error' = out.error
           /\ result_files' = out.result_files
           /\ pc' = IF out.error.type = "none" THEN "scan_returned" ELSE "scan_raised"
    /\ UNCHANGED submission_vars
    /\ UNCHANGED <<result_dir, has_depth_masks, pred_folder, gt_folder,
                   user_submission_files, ground_truth_files,
                   per_example_results, result, calls>>

NextScan == CallScan

SpecScan == InitScan /\ [][NextScan]_vars

----------------------------------------------------------------------------
(* evaluate_file_folders *)

EVAL_METRIC_NAMES == {"psnr_masked", "iou"}

\* the frame read from the three files of a root path
load_rgbda_frame(rgbda_root) ==
    [t \in Range(ResultTypes) |-> rgbda_root \o Postfix(t)]

\* eval_one gives one value per metric; the values are left open
EvalOneResults == [EVAL_METRIC_NAMES -> 0..MaxMetricValue]

\* Mutant: the prediction is taken from the first submitted item
EvalOneCall_FirstPrediction(gt_files, user_files, gt_example) ==
    [fn |-> "eval_one",
     gt_frame |-> load_rgbda_frame(Get(gt_files, gt_example)),
     pred_frame |-> load_rgbda_frame(user_files[1][2])]

\* the call eval_one(load_rgbda_frame(ground_truth_files[gt_example]),
\*                   load_rgbda_frame(user_submission_files[gt_example]))
EvalOneCall(gt_files, user_files, gt_example) ==
    [fn |-> "eval_one",
     gt_frame |-> load_rgbda_frame(Get(gt_files, gt_example)),
     pred_frame |-> load_rgbda_frame(Get(user_files, gt_example))]

RECURSIVE GCD(_, _)
GCD(a, b) == IF b = 0 THEN a ELSE GCD(b, a % b)

\* Mutant: floor division
TrueDiv_Floor(a, b) == <<a \div b, 1>>

\* a / b for b > 0, as the fraction <<numerator, denominator>> in lowest terms
TrueDiv(a, b) == <<a \div GCD(a, b), b \div GCD(a, b)>>

\* sum(r[metric] for r in results)
RECURSIVE SumMetric(_, _)
SumMetric(results, metric) ==
    IF results = << >> THEN 0
    ELSE results[1][metric] + SumMetric(Tail(results), metric)

\* Mutant: an empty list of results averages to zero
Average_ZeroWhenEmpty(results) ==
    IF results = << >>
    THEN [error |-> NoError, result |-> [metric \in EVAL_METRIC_NAMES |-> <<0, 1>>]]
    ELSE [error |-> NoError,
          result |-> [metric \in EVAL_METRIC_NAMES |->
                        TrueDiv(SumMetric(results, metric), Len(results))]]

\* {metric: sum(...) / len(per_example_results) for metric in EVAL_METRIC_NAMES}
Average(results) ==
    IF EVAL_METRIC_NAMES # {} /\ Len(results) = 0
    THEN [error |-> [type |-> "ZeroDivisionError"], result |-> << >>]
    ELSE [error |-> NoError,
          result |-> [metric \in EVAL_METRIC_NAMES |->
                        TrueDiv(SumMetric(results, metric), Len(results))]]

EvalStemList == << <<"a">>, <<"b">>, A_DEPTH, <<"c">> >>

EvalStems(n) == {EvalStemList[i] : i \in 1..n}

\* the result types an example may lack in a directory: none, one, or all
AbsentPatterns ==
    {{}, {"image"}, {"mask"}, {"depth"}, {"image", "mask", "depth"}}

\* the listings where every example of the stems lacks one of these patterns
EvalListings(stems) ==
    {L \in SUBSET ResultFileNames(stems) :
        \A n \in stems :
            {t \in Range(ResultTypes) : (n \o Postfix(t)) \notin L} \in AbsentPatterns}

PredListings == EvalListings(EvalStems(NumEvalStems))

\* a ground truth may carry the depth mask of its first example
GtListings ==
    {L \cup D : L \in EvalListings(EvalStems(NumEvalStems)),
                D \in SUBSET DepthMaskFileNames({EvalStemList[1]})}

InitEval ==
    /\ pc = "eval_start"
    /\ pred_folder \in [path : {<<"p">>}, listing : PredListings]
    /\ gt_folder \in [path : {<<"g">>}, listing : GtListings]
    /\ result_dir = NoDir
    /\ has_depth_masks = FALSE
    /\ result_files = << >>
    /\ user_submission_files = << >>
    /\ ground_truth_files = << >>
    /\ per_example_results = << >>
    /\ result = << >>
    /\ error = NoError
    /\ calls = << >>
    /\ NoSubmission

\* user_submission_files = get_result_directory_file_names(pred_folder)
ScanPred ==
    /\ pc = "eval_start"
    /\ LET out == get_result_directory_file_names(pred_folder, FALSE)
       IN  /\ error' = out.error
           /\ user_submission_files' = out.result_files
           /\ pc' = IF out.error.type = "none" THEN "pred_scanned" ELSE "raised"
    /\ calls' = Append(calls, [fn |-> "get_result_directory_file_names",
                               folder |-> "pred_folder"])
    /\ UNCHANGED submission_vars
    /\ UNCHANGED <<result_dir, has_depth_masks, result_files, pred_folder,
                   gt_folder, ground_truth_files, per_example_results, result>>

\* ground_truth_files = get_result_directory_file_names(gt_folder, has_depth_masks=True)
ScanGt ==
    /\ pc = "pred_scanned"
    /\ LET out == get_result_directory_file_names(gt_folder, TRUE)
       IN  /\ error' = out.error
           /\ ground_truth_files' = out.result_files
           /\ pc' = IF out.error.type = "none" THEN "gt_scanned" ELSE "raised"
    /\ calls' = Append(calls, [fn |-> "get_result_directory_file_names",
                               folder |-> "gt_folder"])
    /\ UNCHANGED submission_vars
    /\ UNCHANGED <<result_dir, has_depth_masks, result_files, pred_folder,
                   gt_folder, user_submission_files, per_example_results, result>>

\* check_user_submission_file_paths(ground_truth_files, user_submission_files)
Check ==
    /\ pc = "gt_scanned"
    /\ error' = check_user_submission_file_paths(ground_truth_files,
                                                 user_submission_files)
    /\ pc' = IF error'.type = "none" THEN "checked" ELSE "raised"
    /\ calls' = Append(calls, [fn |-> "check_user_submission_file_paths"])
    /\ UNCHANGED submission_vars
    /\ UNCHANGED <<result_dir, has_depth_masks, result_files, pred_folder,
                   gt_folder, user_submission_files, ground_truth_files,
                   per_example_results, result>>

\* one iteration of the comprehension over list(ground_truth_files)
EvalOne ==
    /\ pc = "checked"
    /\ Len(per_example_results) < Len(ground_truth_files)
    /\ LET gt_example == Keys(ground_truth_files)[Len(per_example_results) + 1]
       IN  IF HasKey(user_submission_files, gt_example)
           THEN /\ \E r \in EvalOneResults :
                      per_example_results' = Append(per_example_results, r)
                /\ calls' = Append(calls, EvalOneCall(ground_truth_files,
                                                      user_submission_files,
                                                      gt_example))
                /\ UNCHANGED <<pc, error>>
           ELSE /\ error' = [type |-> "KeyError", key |-> gt_example]
                /\ pc' = "raised"
                /\ UNCHANGED <<per_example_results, calls>>
    /\ UNCHANGED submission_vars
    /\ UNCHANGED <<result_dir, has_depth_masks, result_files, pred_folder,
                   gt_folder, user_submission_files, ground_truth_files, result>>

\* the averaging of the metrics and the return
AverageResults ==
    /\ pc = "checked"
    /\ Len(per_example_results) = Len(ground_truth_files)
    /\ LET out == Average(per_example_results)
       IN  /\ error' = out.error
           /\ result' = out.result
           /\ pc' = IF out.error.type = "none" THEN "done" ELSE "raised"
    /\ UNCHANGED submission_vars
    /\ UNCHANGED <<result_dir, has_depth_masks, result_files, pred_folder,
                   gt_folder, user_submission_files, ground_truth_files,
                   per_example_results, calls>>

NextEval == ScanPred \/ ScanGt \/ Check \/ EvalOne \/ AverageResults

SpecEval == InitEval /\ [][NextEval]_vars

----------------------------------------------------------------------------
(* Properties of check_user_submission_file_paths (SpecCheck) *)

CheckDone == pc \in {"check_returned", "check_raised"}

S_gt == KeySet(ground_truth_files)
S_pred == KeySet(user_submission_files)

\* C1: whenever the two mappings have the same set of example names (the
\* empty set included), the call returns without raising, whatever the
\* paths and the order of the items are.
C1_EqualKeySetsReturn ==
    (CheckDone /\ S_gt = S_pred) => (pc = "check_returned" /\ error = NoError)

\* a returned call on two non-empty mappings with the same names, different
\* paths and a different item order
C1_Witness ==
    /\ pc = "check_returned"
    /\ S_gt = S_pred
    /\ Len(ground_truth_files) >= 2
    /\ Keys(ground_truth_files) # Keys(user_submission_files)
    /\ \E n \in S_gt : Get(ground_truth_files, n) # Get(user_submission_files, n)

\* C2 as claimed: whenever the sets of example names differ, the call raises
\* a ValueError that lists exactly the symmetric difference of the two sets.
C2_ListsSymmetricDifference ==
    (CheckDone /\ S_gt # S_pred) =>
        /\ pc = "check_raised"
        /\ error.type = "ValueError"
        /\ Range(error.examples) = (S_gt \ S_pred) \cup (S_pred \ S_gt)

\* C2 (amended): whenever the sets of example names differ, the call raises
\* a ValueError; if some ground-truth name is not submitted, the error is the
\* "missing" one and lists exactly the names of S_gt \ S_pred, each once,
\* and no unexpected submitted name; otherwise it is the "unexpected" one and
\* lists exactly the names of S_pred \ S_gt, each once.
C2_ListsFirstNonEmptyDifference ==
    (CheckDone /\ S_gt # S_pred) =>
        /\ pc = "check_raised"
        /\ error.type = "ValueError"
        /\ IF S_gt \ S_pred # {}
           THEN /\ error.message = "There are missing evaluation examples"
                /\ Range(error.examples) = S_gt \ S_pred
                /\ Len(error.examples) = Cardinality(S_gt \ S_pred)
           ELSE /\ error.message = "Unexpected submitted evaluation examples"
                /\ Range(error.examples) = S_pred \ S_gt
                /\ Len(error.examples) = Cardinality(S_pred \ S_gt)

\* a raised call where names are missing and names are unexpected at once
C2_Witness ==
    /\ pc = "check_raised"
    /\ S_gt \ S_pred # {}
    /\ S_pred \ S_gt # {}
    /\ Cardinality(S_gt \ S_pred) >= 2

----------------------------------------------------------------------------
(* Properties of get_result_directory_file_names (SpecScan) *)

ScanDone == pc \in {"scan_returned", "scan_raised"}

\* the files of a listing that a "*" pattern can match
Visible(listing) == {f \in listing : f[1] # "."}

\* the files of a listing that the scan counts: with has_depth_masks, a file
\* ending in _depth_mask.png is no mask file (and it is no image or depth file)
Counted(listing, depth_masks) ==
    {f \in Visible(listing) : ~(depth_masks /\ EndsWith(f, DEPTH_MASK_POSTFIX))}

\* the example names that appear in the files with one of the three postfixes
NamesIn(files) ==
    {StripLast(x[1], Len(Postfix(x[2]))) :
        x \in {y \in files \X Range(ResultTypes) : EndsWith(y[1], Postfix(y[2]))}}

AbsentTypes(files, n) == {t \in Range(ResultTypes) : (n \o Postfix(t)) \notin files}

IncompleteNames(files) == {n \in NamesIn(files) : AbsentTypes(files, n) # {}}

CompleteNames(files) == {n \in NamesIn(files) : AbsentTypes(files, n) = {}}

\* C3 as claimed: the scan raises a ValueError if and only if some example
\* name appears in the directory with at least one of the postfixes
\* _image.png, _mask.png, _depth.png but not with all three.
C3_RaisesIffIncomplete ==
    ScanDone =>
        ((pc = "scan_raised" /\ error.type = "ValueError")
            <=> IncompleteNames(Visible(result_dir.listing)) # {})

\* C3 (amended): the scan raises a ValueError if and only if some example
\* name appears with at least one of the three postfixes but not with all
\* three among the files it counts, where a file ending in _depth_mask.png
\* is not counted as a mask file when has_depth_masks is true.
C3_RaisesIffIncompleteCounted ==
    ScanDone =>
        ((pc = "scan_raised" /\ error.type = "ValueError")
            <=> IncompleteNames(Counted(result_dir.listing, has_depth_masks)) # {})

\* a ground-truth scan that raises although the example has its three files
C3_Witness ==
    /\ pc = "scan_raised"
    /\ has_depth_masks
    /\ IncompleteNames(Visible(result_dir.listing)) = {}
    /\ CompleteNames(Visible(result_dir.listing)) # {}

MissingItems == error.missing_examples

\* C4 as claimed: the error of an incomplete directory lists every incomplete
\* example name, for each listed name exactly the result types whose file is
\* absent, and no complete example.
C4_ListsEveryIncomplete ==
    pc = "scan_raised" =>
        LET files == Visible(result_dir.listing)
        IN  /\ {MissingItems[i][1] : i \in DOMAIN MissingItems} = IncompleteNames(files)
            /\ \A i \in DOMAIN MissingItems :
                  Range(MissingItems[i][2]) = AbsentTypes(files, MissingItems[i][1])

\* C4 (amended): the error of an incomplete directory lists, each once, every
\* example name that is incomplete among the counted files (a file ending in
\* _depth_mask.png is not counted as a mask file when has_depth_masks is
\* true), for each listed name exactly the result types that have no counted
\* file, and no name that is complete among the counted files.
C4_ListsEveryIncompleteCounted ==
    pc = "scan_raised" =>
        LET files == Counted(result_dir.listing, has_depth_masks)
        IN  /\ {MissingItems[i][1] : i \in DOMAIN MissingItems} = IncompleteNames(files)
            /\ Len(MissingItems) = Cardinality(IncompleteNames(files))
            /\ \A i \in DOMAIN MissingItems :
                  /\ Range(MissingItems[i][2]) = AbsentTypes(files, MissingItems[i][1])
                  /\ Len(MissingItems[i][2]) = Cardinality(Range(MissingItems[i][2]))

\* an error that lists two incomplete examples and leaves out a complete one
C4_Witness ==
    /\ pc = "scan_raised"
    /\ Len(MissingItems) >= 2
    /\ CompleteNames(Counted(result_dir.listing, has_depth_masks)) # {}

\* the directory of a ground truth with the examples S: four files each
GroundTruthListing(S) == ResultFileNames(S) \cup DepthMaskFileNames(S)

WithoutDepthMasks(dir) ==
    [dir EXCEPT !.listing = {f \in @ : ~EndsWith(f, DEPTH_MASK_POSTFIX)}]

\* the outcome of a ground-truth scan is the outcome of the scan of the same
\* directory without its _depth_mask.png files: such a file creates no
\* example and makes no example incomplete
C5_DepthMasksIgnored ==
    [error |-> error, result_files |-> result_files]
        = get_result_directory_file_names(WithoutDepthMasks(result_dir), TRUE)

C5_FlagOnlyAffectsMasks ==
    \A t \in {"image", "depth"} :
        MatchingFiles(result_dir, TRUE, t) = MatchingFiles(result_dir, FALSE, t)

C5_YieldsExamples(names) ==
    \A S \in SUBSET names :
        Visible(result_dir.listing) \ {OTHER_FILE} = GroundTruthListing(S)
            => (pc = "scan_returned" /\ KeySet(result_files) = S)

EndsInDepth(n) == EndsWith(n, <<"_">> \o TypeChars("depth"))

\* C5 as claimed: in a scan with has_depth_masks, a file <name>_depth_mask.png
\* creates no example <name>_depth and never makes the scan raise, a
\* directory with the four files of each example yields exactly these
\* examples, and the flag changes nothing for image and depth files.
C5_DepthMaskExcluded ==
    (ScanDone /\ has_depth_masks) =>
        /\ C5_DepthMasksIgnored
        /\ C5_FlagOnlyAffectsMasks
        /\ C5_YieldsExamples(Stems(NumScanStems))

\* C5 (amended): as claimed, but a directory with the four files of each
\* example yields exactly these examples provided no example name ends in
\* _depth (the mask of such an example is itself taken for a depth mask).
C5_DepthMaskExcludedUnlessNameEndsInDepth ==
    (ScanDone /\ has_depth_masks) =>
        /\ C5_DepthMasksIgnored
        /\ C5_FlagOnlyAffectsMasks
        /\ C5_YieldsExamples({n \in Stems(NumScanStems) : ~EndsInDepth(n)})

\* a ground-truth scan of the four files of an example returns that example
C5_Witness ==
    /\ pc = "scan_returned"
    /\ has_depth_masks
    /\ \E n \in Stems(NumScanStems) :
          /\ result_dir.listing = GroundTruthListing({n})
          /\ KeySet(result_files) = {n}

\* C8: the keys of a returned mapping are exactly the example names that have
\* their three files in the directory (without has_depth_masks these are all
\* the names found), and the value of example n is result_dir/n, so that the
\* value followed by each of the three postfixes is a file of the directory.
C8_ReturnsRootPaths ==
    pc = "scan_returned" =>
        LET files == Visible(result_dir.listing)
        IN  /\ KeySet(result_files) = CompleteNames(files)
            /\ ~has_depth_masks => KeySet(result_files) = NamesIn(files)
            /\ Len(result_files) = Cardinality(KeySet(result_files))
            /\ \A i \in DOMAIN result_files :
                  /\ result_files[i][2] = result_dir.path \o <<"/">> \o result_files[i][1]
                  /\ \A t \in Range(ResultTypes) :
                        \E f \in files :
                            result_files[i][2] \o Postfix(t) = result_dir.path \o <<"/">> \o f

\* a scan that returns two examples
C8_Witness ==
    /\ pc = "scan_returned"
    /\ Len(result_files) >= 2

----------------------------------------------------------------------------
(* Properties of evaluate_file_folders (SpecEval) *)

EvalCalls ==
    LET Test(c) == c.fn = "eval_one"
    IN  SelectSeq(calls, Test)

\* the two scans and the check, in the order of the code
ValidationCalls ==
    << [fn |-> "get_result_directory_file_names", folder |-> "pred_folder"],
       [fn |-> "get_result_directory_file_names", folder |-> "gt_folder"],
       [fn |-> "check_user_submission_file_paths"] >>

\* the example names of the two directories differ: the names that have
\* their three files, or the names that the scans count
ExampleNamesDiffer ==
    \/ CompleteNames(Visible(pred_folder.listing))
           # CompleteNames(Visible(gt_folder.listing))
    \/ NamesIn(Counted(pred_folder.listing, FALSE))
           # NamesIn(Counted(gt_folder.listing, TRUE))

\* C6: when the example names of the two directories differ, the evaluation
\* ends by raising a ValueError and evaluates no example; every eval_one
\* call comes after the two scans and the check have returned; and wherever
\* a metric is computed the two mappings have the same set of keys.
C6_ValidatesBeforeEvaluating ==
    /\ ExampleNamesDiffer =>
          /\ pc \notin {"checked", "done"}
          /\ EvalCalls = << >>
          /\ pc = "raised" => error.type = "ValueError"
    /\ \A i \in DOMAIN calls :
          calls[i].fn = "eval_one" =>
              /\ i > 3
              /\ SubSeq(calls, 1, 3) = ValidationCalls
    /\ (pc \in {"checked", "done"} \/ per_example_results # << >>) =>
          /\ S_gt = S_pred
          /\ SubSeq(calls, 1, 3) = ValidationCalls

\* both scans returned and the check raised for a missing and an extra example
C6_Witness ==
    /\ pc = "raised"
    /\ calls = ValidationCalls
    /\ S_gt \ S_pred # {}
    /\ S_pred \ S_gt # {}
    /\ per_example_results = << >>

\* C7: the result has exactly the keys of EVAL_METRIC_NAMES, and each value
\* is the sum of the metric over per_example_results divided by the number
\* of ground-truth examples (a fraction num/den with num * n = den * sum).
C7_ResultIsMean ==
    pc = "done" =>
        /\ DOMAIN result = EVAL_METRIC_NAMES
        /\ Len(per_example_results) = Len(ground_truth_files)
        /\ \A metric \in EVAL_METRIC_NAMES :
              /\ result[metric][2] > 0
              /\ result[metric][1] * Len(ground_truth_files)
                    = result[metric][2] * SumMetric(per_example_results, metric)

\* two examples whose mean is no integer
C7_Witness ==
    /\ pc = "done"
    /\ Len(per_example_results) = 2
    /\ \E metric \in EVAL_METRIC_NAMES :
          /\ per_example_results[1][metric] # per_example_results[2][metric]
          /\ result[metric][2] = 2

EvalFinished ==
    \/ pc = "done"
    \/ pc = "raised" /\ error.type = "ZeroDivisionError"

\* C9: the examples are evaluated one after the other in the order of
\* ground_truth_files, which is the sorted order of the names, each exactly
\* once: the i-th eval_one call gets the ground-truth frame and the predicted
\* frame of the i-th ground-truth example, and when the evaluation is over
\* per_example_results has one entry per ground-truth example.
C9_EachExampleOnceInOrder ==
    /\ Len(EvalCalls) = Len(per_example_results)
    /\ Len(per_example_results) <= Len(ground_truth_files)
    /\ EvalFinished => Len(per_example_results) = Len(ground_truth_files)
    /\ \A i, j \in DOMAIN ground_truth_files :
          i < j => StrLess(ground_truth_files[i][1], ground_truth_files[j][1])
    /\ \A i \in DOMAIN EvalCalls :
          LET gt_example == ground_truth_files[i][1]
          IN  \A t \in Range(ResultTypes) :
                /\ EvalCalls[i].gt_frame[t]
                      = gt_folder.path \o <<"/">> \o gt_example \o Postfix(t)
                /\ EvalCalls[i].pred_frame[t]
                      = pred_folder.path \o <<"/">> \o gt_example \o Postfix(t)

\* two examples evaluated
C9_Witness ==
    /\ pc = "done"
    /\ Len(EvalCalls) = 2
    /\ Len(ground_truth_files) = 2

\* C10: when neither directory contains a result file, both scans and the
\* check succeed and the evaluation ends in the averaging step with a
\* ZeroDivisionError, neither a result nor a ValueError; with one example or
\* more the averaging never divides by zero.
C10_EmptyFoldersDivideByZero ==
    /\ (pc \in {"done", "raised"}
          /\ NamesIn(Counted(pred_folder.listing, FALSE)) = {}
          /\ NamesIn(Counted(gt_folder.listing, TRUE)) = {}) =>
            /\ pc = "raised"
            /\ error.type = "ZeroDivisionError"
            /\ calls = ValidationCalls
            /\ result = << >>
    /\ error.type = "ZeroDivisionError" =>
          /\ ground_truth_files = << >>
          /\ user_submission_files = << >>
    /\ (pc = "checked" /\ Len(ground_truth_files) >= 1
          /\ Len(per_example_results) = Len(ground_truth_files)) =>
            Average(per_example_results).error = NoError

\* the evaluation of two directories without result files has failed
C10_Witness ==
    /\ pc = "raised"
    /\ error.type = "ZeroDivisionError"
    /\ NamesIn(Visible(pred_folder.listing)) = {}
    /\ NamesIn(Counted(gt_folder.listing, TRUE)) = {}

----------------------------------------------------------------------------
(* make_dbir_submission *)

Tasks == {"MANY_VIEW", "FEW_VIEW"}

SequenceSets == {"DEV", "TEST"}

\* the (category, subset_name) keys an eval-batches map may have
SubmissionKeyList ==
    << <<"apple", "subset_0">>, <<"apple", "subset_1">>,
       <<"ball", "subset_0">>, <<"ball", "subset_1">> >>

SubmissionKeys == {SubmissionKeyList[i] : i \in 1..NumSubmissionKeys}

\* submission.get_eval_batches_map(): every dict from keys to a number of
\* eval batches
EvalBatchesMaps == Dicts(SubmissionKeys, 0..MaxEvalBatches)

InitSubmit ==
    /\ pc = "submit_start"
    /\ task \in Tasks
    /\ sequence_set \in SequenceSets
    /\ clear_submission_files \in BOOLEAN
    /\ ON_SERVER \in BOOLEAN
    /\ cuda_is_available \in BOOLEAN
    /\ eval_batches_map \in EvalBatchesMaps
    /\ eval_i = 0
    /\ eval_index = 0
    /\ result_dir = NoDir
    /\ has_depth_masks = FALSE
    /\ result_files = << >>
    /\ pred_folder = NoDir
    /\ gt_folder = NoDir
    /\ user_submission_files = << >>
    /\ ground_truth_files = << >>
    /\ per_example_results = << >>
    /\ result = << >>
    /\ error = NoError
    /\ calls = << >>

evaluation_vars == <<result_dir, has_depth_masks, result_files, pred_folder,
                     gt_folder, user_submission_files, ground_truth_files,
                     per_example_results, result>>

submission_args == <<task, sequence_set, clear_submission_files, ON_SERVER,
                     cuda_is_available, eval_batches_map>>

\* submission = CO3DSubmission(...), with on_server=True on the server
CreateSubmission ==
    /\ pc = "submit_start"
    /\ calls' = Append(calls, [fn |-> "CO3DSubmission", on_server |-> ON_SERVER])
    /\ pc' = "created"
    /\ UNCHANGED <<evaluation_vars, submission_args, eval_i, eval_index, error>>

\* if clear_submission_files: submission.clear_files()
ClearFiles ==
    /\ pc = "created"
    /\ calls' = IF clear_submission_files
                THEN Append(calls, [fn |-> "clear_files"])
                ELSE calls
    /\ pc' = "cleared"
    /\ UNCHANGED <<evaluation_vars, submission_args, eval_i, eval_index, error>>

\* eval_batches_map = submission.get_eval_batches_map()
GetEvalBatchesMap ==
    /\ pc = "cleared"
    /\ calls' = Append(calls, [fn |-> "get_eval_batches_map"])
    /\ eval_i' = 0
    /\ pc' = "loop"
    /\ UNCHANGED <<evaluation_vars, submission_args, eval_index, error>>

\* the next key of the map: the start of
\* update_dbir_submission_with_category_and_subset_predictions, up to the
\* loop over the eval batches.  In
\*   device = torch.device("cuda") if torch.cuda.is_available() else device("cpu")
\* the name device is the local variable being assigned, so without CUDA
\* the call device("cpu") raises UnboundLocalError
UpdateStart ==
    /\ pc = "loop"
    /\ eval_i < Len(eval_batches_map)
    /\ IF cuda_is_available
       THEN /\ pc' = "rendering"
            /\ eval_index' = 0
            /\ UNCHANGED error
       ELSE /\ pc' = "submission_raised"
            /\ error' = [type |-> "UnboundLocalError", name |-> "device"]
            /\ UNCHANGED eval_index
    /\ UNCHANGED <<evaluation_vars, submission_args, eval_i, calls>>

\* one eval batch: the render and submission.add_result(...)
AddResult ==
    /\ pc = "rendering"
    /\ eval_index < eval_batches_map[eval_i + 1][2]
    /\ IF task \in {"MANY_VIEW", "FEW_VIEW"}
       THEN /\ calls' = Append(calls,
                          [fn |-> "add_result",
                           category |-> eval_batches_map[eval_i + 1][1][1],
                           subset_name |-> eval_batches_map[eval_i + 1][1][2],
                           eval_index |-> eval_index])
            /\ eval_index' = eval_index + 1
            /\ UNCHANGED <<pc, error>>
       ELSE /\ pc' = "submission_raised"
            /\ error' = [type |-> "ValueError", task |-> task]
            /\ UNCHANGED <<calls, eval_index>>
    /\ UNCHANGED <<evaluation_vars, submission_args, eval_i>>

\* the loop over the eval batches of a key is over
UpdateDone ==
    /\ pc = "rendering"
    /\ eval_index = eval_batches_map[eval_i + 1][2]
    /\ eval_i' = eval_i + 1
    /\ pc' = "loop"
    /\ UNCHANGED <<evaluation_vars, submission_args, eval_index, calls, error>>

\* if not (sequence_set == CO3DSequenceSet.TEST and not ON_SERVER): submission.evaluate()
Evaluate ==
    /\ pc = "loop"
    /\ eval_i = Len(eval_batches_map)
    /\ calls' = IF ~(sequence_set = "TEST" /\ ~ON_SERVER)
                THEN Append(calls, [fn |-> "evaluate"])
                ELSE calls
    /\ pc' = "evaluated"
    /\ UNCHANGED <<evaluation_vars, submission_args, eval_i, eval_index, error>>

\* submission.export_results(validate_results=True)
ExportResults ==
    /\ pc = "evaluated"
    /\ calls' = Append(calls, [fn |-> "export_results", validate_results |-> TRUE])
    /\ pc' = "submitted"
    /\ UNCHANGED <<evaluation_vars, submission_args, eval_i, eval_index, error>>

NextSubmit ==
    \/ CreateSubmission
    \/ ClearFiles
    \/ GetEvalBatchesMap
    \/ UpdateStart
    \/ AddResult
    \/ UpdateDone
    \/ Evaluate
    \/ ExportResults

SpecSubmit == InitSubmit /\ [][NextSubmit]_vars

----------------------------------------------------------------------------
(* Properties of make_dbir_submission (SpecSubmit) *)

CallsOf(fn) == {i \in DOMAIN calls : calls[i].fn = fn}

\* the number of results added for a key before the i-th call
AddedBefore(i, key) ==
    Cardinality({j \in 1..(i - 1) :
                    /\ calls[j].fn = "add_result"
                    /\ calls[j].category = key[1]
                    /\ calls[j].subset_name = key[2]})

SubmissionOver == pc \in {"submitted", "submission_raised"}

\* C11: clear_files is called exactly when clear_submission_files is true and
\* before every add_result; when evaluate or export_results is called, the
\* results of all eval batches of every key of the eval-batches map have been
\* added; and when make_dbir_submission is over, evaluate has been called
\* exactly unless sequence_set is TEST and ON_SERVER is false, and
\* export_results(validate_results=True) has been called exactly once, as
\* the last call.
C11_SubmissionStepsInOrder ==
    /\ \A i \in CallsOf("clear_files") : \A j \in CallsOf("add_result") : i < j
    /\ pc \notin {"submit_start", "created"} =>
          Cardinality(CallsOf("clear_files")) = IF clear_submission_files THEN 1 ELSE 0
    /\ \A i \in CallsOf("evaluate") \cup CallsOf("export_results") :
          \A k \in DOMAIN eval_batches_map :
              AddedBefore(i, eval_batches_map[k][1]) = eval_batches_map[k][2]
    /\ SubmissionOver =>
          /\ Cardinality(CallsOf("evaluate"))
                = IF sequence_set = "TEST" /\ ~ON_SERVER THEN 0 ELSE 1
          /\ CallsOf("export_results") = {Len(calls)}
          /\ calls[Len(calls)].validate_results = TRUE

====
